---- MODULE Spec2Model ----
(***************************************************************************)
(* Model of scripts/docs/generate.go: the recursive walk of the cobra      *)
(* command tree (generate), the page renderer (generateMarkdown,           *)
(* printExample, printSeeAlso) and the file operations they perform.       *)
(*                                                                         *)
(* Strings are TLA+ strings; strings.Replace and filepath.Join are         *)
(* computed character by character as the Go library computes them.        *)
(* The cobra command tree, the formatter registry, the module loader, the  *)
(* clock and the file system are the environment: their answers are drawn  *)
(* from small sets.                                                        *)
(***************************************************************************)
EXTENDS Integers, Sequences, FiniteSets, TLC

VARIABLES
    cmds,      \* the command tree: cmds[i] is a node, cmds[1] the root
    dirs,      \* directories that exist (relative to the working directory)
    fs,        \* files on disk: path -> sequence of chunks written since creation
    stack,     \* call stack of generate(): frames [cmd, subdir, basename, i]
    ret,       \* value handed back by the generate() call that just returned
    status,    \* "running", "ok" (exit 0) or "failed" (log.Fatal, exit 1)
    failure,   \* the first error of the run: [kind, node], or NoFailure
    log,       \* history of the file operations of the current run
    today,     \* what time.Now() formats to during the current run
    run,       \* 1 for the first invocation of the program, 2 for the second
    snapshot   \* fs as the first invocation left it

vars == <<cmds, dirs, fs, stack, ret, status, failure, log, today, run, snapshot>>

----------------------------------------------------------------------------
(* Bounds of the model *)

\* largest number of commands in the tree, the root included
MaxNodes == 4

----------------------------------------------------------------------------
(* Strings *)

\* strings.Replace(s, old, new, -1), old non-empty: every non-overlapping
\* occurrence of old, left to right
RECURSIVE Replace(_, _, _)
Replace(s, old, new) ==
    IF Len(s) < Len(old) THEN s
    ELSE IF SubSeq(s, 1, Len(old)) = old
         THEN new \o Replace(SubSeq(s, Len(old) + 1, Len(s)), old, new)
         ELSE SubSeq(s, 1, 1) \o Replace(SubSeq(s, 2, Len(s)), old, new)

\* duplicate separators collapse into one
RECURSIVE Squeeze(_)
Squeeze(p) ==
    IF Len(p) < 2 THEN p
    ELSE IF SubSeq(p, 1, 2) = "//" THEN Squeeze(SubSeq(p, 2, Len(p)))
    ELSE SubSeq(p, 1, 1) \o Squeeze(SubSeq(p, 2, Len(p)))

\* filepath.Clean, for the paths generate builds (no "..", no "." element
\* after the first, no trailing slash): duplicate separators collapse and a
\* leading "./" goes
Clean(p) ==
    LET q == Squeeze(p)
    IN  IF Len(q) > 2 /\ SubSeq(q, 1, 2) = "./" THEN SubSeq(q, 3, Len(q)) ELSE q

\* filepath.Join(a, b, c): empty elements are ignored, the rest joined by
\* the separator, the result cleaned
Join(a, b, c) ==
    LET ab == IF b = "" THEN a ELSE a \o "/" \o b
    IN  Clean(IF c = "" THEN ab ELSE ab \o "/" \o c)

\* the directory a path lies in (everything before its last separator)
RECURSIVE DirOf(_)
DirOf(p) ==
    IF p = "" THEN "."
    ELSE IF SubSeq(p, Len(p), Len(p)) = "/" THEN SubSeq(p, 1, Len(p) - 1)
    ELSE DirOf(SubSeq(p, 1, Len(p) - 1))

basedir == "/docs"
formatdir == "/formats"

----------------------------------------------------------------------------
(* The command tree (cobra.Command), read-only during a run *)

Nodes == 1..Len(cmds)
Root == 1

\* (mutation) the children enumerated last to first
CommandsReversed(c) ==
    LET RECURSIVE from(_)
        from(j) == IF j < 1 THEN <<>>
                   ELSE IF cmds[j].parent = c THEN <<j>> \o from(j - 1)
                   ELSE from(j - 1)
    IN  from(Len(cmds))

\* cmd.Commands(): the children of c in the order they were added
Commands(c) ==
    LET RECURSIVE from(_)
        from(j) == IF j > Len(cmds) THEN <<>>
                   ELSE IF cmds[j].parent = c THEN <<j>> \o from(j + 1)
                   ELSE from(j + 1)
    IN  from(1)

\* cmd.CommandPath(): the names from the root down, joined by spaces
RECURSIVE CommandPath(_)
CommandPath(c) ==
    IF cmds[c].parent = 0 THEN cmds[c].name
    ELSE CommandPath(cmds[c].parent) \o " " \o cmds[c].name

\* (mutation) the "kind" annotation is not looked at
generateSkipsUntagged(c) == ~cmds[c].available \/ cmds[c].helpTopic

\* the two conditions under which the loop of generate passes over a child
generateSkips(c) ==
    \/ ~cmds[c].available \/ cmds[c].helpTopic
    \/ cmds[c].kind = "" \/ cmds[c].kind /= "formatter"

\* the base name generate derives for the page of a child
baseName(c) ==
    Replace(Replace(CommandPath(c), " ", "-"), "terraform-docs-", "")

\* the file generate writes for a frame
fileName(subdir, basename) == Join("." \o basedir, subdir, basename \o ".md")

----------------------------------------------------------------------------
(* Rendering *)

\* (mutation) the "kind" annotation is not looked at
seeAlsoSkipsUntagged(c) == ~cmds[c].available \/ cmds[c].helpTopic

\* the conditions under which printSeeAlso passes over a child or grandchild
seeAlsoSkips(c) ==
    \/ ~cmds[c].available \/ cmds[c].helpTopic
    \/ cmds[c].kind = "" \/ cmds[c].kind /= "formatter"

\* (mutation) the link keeps the name of the program
bulletUnstripped(level, c) ==
    [level |-> level,
     text  |-> CommandPath(c),
     href  |-> basedir \o formatdir \o "/" \o
               Replace(CommandPath(c), " ", "-") \o ".md"]

\* one bullet of the SEE ALSO section
bullet(level, c) ==
    [level |-> level,
     text  |-> CommandPath(c),
     href  |-> basedir \o formatdir \o "/" \o
               Replace(Replace(CommandPath(c), " ", "-") \o ".md",
                       "terraform-docs-", "")]

\* printSeeAlso(buf, children): a bullet per child that is not passed over,
\* each followed by a nested bullet per grandchild that is not passed over
printSeeAlso(children) ==
    LET RECURSIVE nested(_, _)
        nested(gs, k) ==
            IF k > Len(gs) THEN <<>>
            ELSE IF seeAlsoSkips(gs[k]) THEN nested(gs, k + 1)
            ELSE <<bullet(2, gs[k])>> \o nested(gs, k + 1)
        RECURSIVE outer(_)
        outer(k) ==
            IF k > Len(children) THEN <<>>
            ELSE IF seeAlsoSkips(children[k]) THEN outer(k + 1)
            ELSE <<bullet(1, children[k])>>
                 \o nested(Commands(children[k]), 1) \o outer(k + 1)
    IN  outer(1)

\* getFlags(name)
getFlags(name) ==
    IF Replace(name, "terraform-docs ", "") = "pretty" THEN " --no-color" ELSE ""

\* (mutation) the section is chosen by the children printSeeAlso would list
terminalSectionByListed(c) ==
    IF \A k \in DOMAIN Commands(c) : seeAlsoSkips(Commands(c)[k])
    THEN "Example" ELSE "SEE ALSO"

\* which terminal section generateMarkdown renders for cmd
\* (cmd.InitDefaultHelpCmd adds a help command only to a command that has
\* subcommands already, so it leaves len(cmd.Commands()) == 0 as it was; the
\* help command is not available and printSeeAlso passes over it)
terminalSection(c) ==
    IF Len(Commands(c)) = 0 THEN "Example" ELSE "SEE ALSO"

\* the buffer generateMarkdown has assembled when every section rendered
generateMarkdown(c, date) ==
    [title   |-> CommandPath(c),
     section |-> terminalSection(c),
     shell   |-> IF terminalSection(c) = "Example"
                 THEN CommandPath(c) \o getFlags(CommandPath(c)) \o " ./examples/"
                 ELSE "",
     formatter |-> IF terminalSection(c) = "Example"
                   THEN Replace(CommandPath(c), "terraform-docs ", "")
                   ELSE "",
     links   |-> IF terminalSection(c) = "Example" THEN <<>>
                 ELSE printSeeAlso(Commands(c)),
     date    |-> date,
     partial |-> FALSE]

----------------------------------------------------------------------------
(* The file system *)

\* (mutation) os.MkdirAll before os.Create
osMkdirAllDirs(path) == dirs \cup {DirOf(path), DirOf(DirOf(path))}

\* the directories that exist once os.Create(path) has run: os.Create makes
\* the file only, never a directory
osCreateDirs(path) == dirs

\* (mutation) the file is opened for appending
osOpenAppend(path) == IF path \in DOMAIN fs THEN fs[path] ELSE <<>>

\* what a file holds right after os.Create opened it (O_CREATE|O_TRUNC)
osCreate(path) == <<>>

\* (mutation) every section goes to the file as soon as it is rendered
fileAfterUnbufferedMarkdown(chunks, outcome, page) ==
    CASE outcome = "ok" -> Append(chunks, page)
      [] OTHER          -> Append(chunks, [page EXCEPT !.partial = TRUE])

\* what the file holds when generateMarkdown ends with the given outcome,
\* chunks being what it held before: the page goes to the file in the one
\* buf.WriteTo(w) at the end, which an error return of a section never reaches
fileAfterMarkdown(chunks, outcome, page) ==
    CASE outcome = "ok"      -> Append(chunks, page)
      [] outcome = "writeTo" -> Append(chunks, [page EXCEPT !.partial = TRUE])
      [] OTHER               -> chunks

----------------------------------------------------------------------------
(* generate *)

NoFailure == [kind |-> "none", node |-> 0]

Top == stack[Len(stack)]

\* the range loop of generate has passed the last child
loopDone(fr) == fr.i > Len(Commands(fr.cmd))

\* (mutation) the error of the recursive call is dropped
returnsErrNever(e) == FALSE

\* what the caller does with the error a recursive call returned
returnsErr(e) == e = "err"

\* the ways the tail of generate (create, write, render) can end for cmd:
\* "create", "writeEmpty" and "writeTo" are file-system errors, "factory",
\* "load" and "print" the errors of printExample
Outcomes(c) ==
    {"ok", "create", "writeEmpty", "writeTo"}
    \cup (IF terminalSection(c) = "Example" THEN {"factory", "load", "print"} ELSE {})

\* loop body, child passed over: continue
Skip ==
    /\ status = "running" /\ ret = "none" /\ stack /= <<>>
    /\ ~loopDone(Top)
    /\ generateSkips(Commands(Top.cmd)[Top.i])
    /\ stack' = [stack EXCEPT ![Len(stack)].i = @ + 1]
    /\ UNCHANGED <<cmds, dirs, fs, ret, status, failure, log, today, run, snapshot>>

\* loop body, child kept: generate(c, formatdir, b)
Call ==
    /\ status = "running" /\ ret = "none" /\ stack /= <<>>
    /\ ~loopDone(Top)
    /\ LET c == Commands(Top.cmd)[Top.i] IN
        /\ ~generateSkips(c)
        /\ stack' = Append(stack, [cmd |-> c, subdir |-> formatdir,
                                   basename |-> baseName(c), i |-> 1])
    /\ UNCHANGED <<cmds, dirs, fs, ret, status, failure, log, today, run, snapshot>>

\* the recursive call returned no error: next child
Continue ==
    /\ status = "running" /\ ret /= "none" /\ stack /= <<>>
    /\ ~returnsErr(ret)
    /\ stack' = [stack EXCEPT ![Len(stack)].i = @ + 1]
    /\ ret' = "none"
    /\ UNCHANGED <<cmds, dirs, fs, status, failure, log, today, run, snapshot>>

\* the recursive call returned an error: return err
ReturnErr ==
    /\ status = "running" /\ ret /= "none" /\ stack /= <<>>
    /\ returnsErr(ret)
    /\ stack' = SubSeq(stack, 1, Len(stack) - 1)
    /\ UNCHANGED <<cmds, dirs, fs, ret, status, failure, log, today, run, snapshot>>

\* after the loop: os.Create, io.WriteString(f, ""), generateMarkdown, return
EmitPage ==
    /\ status = "running" /\ ret = "none" /\ stack /= <<>>
    /\ loopDone(Top)
    /\ \E c \in {Top.cmd} :
       \E path \in {fileName(Top.subdir, Top.basename)} :
       \E page \in {generateMarkdown(c, today)} :
       \E nodir \in {DirOf(path) \notin osCreateDirs(path)} :
       \E outcome \in Outcomes(c) :
           LET created == ~nodir /\ outcome /= "create"
               opened  == osCreate(path)
               rendered == outcome \notin {"create", "writeEmpty"}
               content == IF rendered THEN fileAfterMarkdown(opened, outcome, page)
                          ELSE opened
               kind    == IF nodir THEN "create" ELSE outcome
           IN /\ nodir => outcome = "create"
              /\ dirs' = osCreateDirs(path)
              /\ fs' = IF created THEN (path :> content) @@ fs ELSE fs
              /\ log' = log
                    \o (IF created
                        THEN <<[op |-> "create", node |-> c, path |-> path]>>
                        ELSE <<[op |-> "createfail", node |-> c, path |-> path,
                                nodir |-> nodir]>>)
                    \o (IF created /\ content /= opened
                        THEN <<[op |-> "write", node |-> c, path |-> path,
                                page |-> content[Len(content)]]>>
                        ELSE <<>>)
              /\ failure' = IF kind = "ok" THEN failure ELSE [kind |-> kind, node |-> c]
              \* terraform.LoadWithOptions failing ends in log.Fatal on the spot
              /\ status' = IF kind = "load" THEN "failed" ELSE status
              /\ ret' = IF kind = "ok" THEN "nil" ELSE IF kind = "load" THEN ret ELSE "err"
              /\ stack' = IF kind = "load" THEN stack
                          ELSE SubSeq(stack, 1, Len(stack) - 1)
    /\ UNCHANGED <<cmds, today, run, snapshot>>

\* main: generate returned; log.Fatal(err) on an error, exit 0 otherwise
MainExit ==
    /\ status = "running" /\ stack = <<>> /\ ret /= "none"
    /\ status' = IF ret = "err" THEN "failed" ELSE "ok"
    /\ UNCHANGED <<cmds, dirs, fs, stack, ret, failure, log, today, run, snapshot>>

Dates == {"2-Nov-2026", "3-Nov-2026"}

\* the program is run a second time over the files the first run left
Rerun ==
    /\ status = "ok" /\ run = 1
    /\ run' = 2
    /\ snapshot' = fs
    /\ today' \in Dates
    /\ stack' = <<[cmd |-> Root, subdir |-> "", basename |-> "FORMATS_GUIDE", i |-> 1]>>
    /\ ret' = "none" /\ status' = "running" /\ failure' = NoFailure /\ log' = <<>>
    /\ UNCHANGED <<cmds, dirs, fs>>

----------------------------------------------------------------------------
(* The command trees and directories a run starts from *)

RootCmd == [parent |-> 0, name |-> "terraform-docs",
            available |-> TRUE, helpTopic |-> FALSE, kind |-> ""]

\* names given to subcommands that all differ
FormatterNames == <<"asciidoc", "json", "pretty", "toml", "yaml", "xml">>

\* names whose pages collide once hyphenated: "markdown table" and
\* "markdown-table"
CollidingNames == {"markdown", "table", "markdown-table"}

\* names of which one holds the name of the program
PrefixedNames == {"json", "terraform-docs-json"}

Formatter == [available |-> TRUE, helpTopic |-> FALSE, kind |-> "formatter"]

CommandFlags ==
    { Formatter,
      [available |-> FALSE, helpTopic |-> FALSE, kind |-> "formatter"],
      [available |-> TRUE,  helpTopic |-> TRUE,  kind |-> "formatter"],
      [available |-> TRUE,  helpTopic |-> FALSE, kind |-> ""],
      [available |-> TRUE,  helpTopic |-> FALSE, kind |-> "command"] }

mkCmd(p, nm, fl) ==
    [parent |-> p, name |-> nm, available |-> fl.available,
     helpTopic |-> fl.helpTopic, kind |-> fl.kind]

\* every tree of n commands: node i > 1 hangs under an earlier node
Shapes(n) == { p \in [2..n -> 1..n] : \A i \in 2..n : p[i] < i }

\* distinct names, any flags
TreeByFlags(n, p, fl) ==
    [i \in 1..n |-> IF i = 1 THEN RootCmd
                    ELSE mkCmd(p[i], FormatterNames[i - 1], fl[i])]

\* any names of one vocabulary, no two children of a command the same name
TreeByNames(n, p, nm, fl) ==
    [i \in 1..n |-> IF i = 1 THEN RootCmd ELSE mkCmd(p[i], nm[i], fl[i])]

Namings(n, p, names) ==
    { nm \in [2..n -> names] :
        \A i, j \in 2..n : (i /= j /\ p[i] = p[j]) => nm[i] /= nm[j] }

DirStates == { {"docs", "docs/formats"}, {"docs"}, {} }

\* the state main starts generate in
Start ==
    /\ dirs \in DirStates
    /\ fs = << >>
    /\ stack = <<[cmd |-> Root, subdir |-> "", basename |-> "FORMATS_GUIDE", i |-> 1]>>
    /\ ret = "none"
    /\ status = "running"
    /\ failure = NoFailure
    /\ log = <<>>
    /\ today = "2-Nov-2026"
    /\ run = 1
    /\ snapshot = << >>

Init ==
    /\ \E n \in 1..MaxNodes : \E p \in Shapes(n) :
         \/ \E fl \in [2..n -> CommandFlags] : cmds = TreeByFlags(n, p, fl)
         \/ \E nm \in Namings(n, p, CollidingNames) :
                cmds = TreeByNames(n, p, nm, [i \in 2..n |-> Formatter])
    /\ Start

\* trees in which a subcommand bears the name of the program
InitPrefixed ==
    /\ \E n \in 1..MaxNodes : \E p \in Shapes(n) :
         \E nm \in Namings(n, p, PrefixedNames) :
         \E fl \in [2..n -> {Formatter, [Formatter EXCEPT !.available = FALSE]}] :
                cmds = TreeByNames(n, p, nm, fl)
    /\ Start

Next ==
    \/ Skip
    \/ Call
    \/ Continue
    \/ ReturnErr
    \/ EmitPage
    \/ MainExit
    \/ Rerun

Spec == Init /\ [][Next]_vars

SpecPrefixed == InitPrefixed /\ [][Next]_vars

----------------------------------------------------------------------------
(* Vocabulary of the properties, stated on the tree and the history alone *)

\* the documentable nodes of the specification
Documentable(n) ==
    cmds[n].available /\ ~cmds[n].helpTopic /\ cmds[n].kind = "formatter"

ChildrenOf(n) == { j \in Nodes : cmds[j].parent = n }

\* the root, and the nodes below it whose ancestors below the root are all
\* documentable, as they are themselves
RECURSIVE Reached(_)
Reached(n) ==
    n = Root \/ (Documentable(n) /\ Reached(cmds[n].parent))

\* the reached nodes of the subtree of n, children in the order of their
\* enumeration, each subtree before the next, n last
RECURSIVE PostOrder(_)
PostOrder(n) ==
    LET RECURSIVE over(_)
        over(j) == IF j > Len(cmds) THEN <<>>
                   ELSE IF cmds[j].parent = n /\ Documentable(j)
                        THEN PostOrder(j) \o over(j + 1)
                        ELSE over(j + 1)
    IN  over(1) \o <<n>>

Events(op) == { k \in DOMAIN log : log[k].op = op }
EventsOf(op, n) == { k \in DOMAIN log : log[k].op = op /\ log[k].node = n }

\* the nodes of the events of one kind, in the order of the events
NodesOf(op) ==
    LET RECURSIVE from(_)
        from(k) == IF k > Len(log) THEN <<>>
                   ELSE IF log[k].op = op THEN <<log[k].node>> \o from(k + 1)
                   ELSE from(k + 1)
    IN  from(1)

LastEvent == log[Len(log)]
JustWrote == log /= <<>> /\ LastEvent.op = "write"

\* where the page of a node belongs
PagePath(n) ==
    IF n = Root THEN "docs/FORMATS_GUIDE.md"
    ELSE "docs/formats/" \o baseName(n) \o ".md"

IsPrefix(a, b) == Len(a) <= Len(b) /\ a = SubSeq(b, 1, Len(a))

----------------------------------------------------------------------------
(* C1 *)

\* C1 as claimed: after a successful run the nodes below the root that got a
\* page file are exactly the documentable nodes, wherever they sit in the tree
C1_AsClaimed ==
    status = "ok" =>
        { log[k].node : k \in Events("create") } \ {Root}
            = { n \in Nodes \ {Root} : Documentable(n) }

\* C1 amended: after a successful run the nodes that got a page file are
\* exactly the root and the nodes reached from it through documentable nodes
\* only; each of them was created and written exactly once, at the path of its
\* derived name, and no other file was emitted
C1_EmittedAreReached ==
    status = "ok" =>
        /\ { log[k].node : k \in Events("create") } = { n \in Nodes : Reached(n) }
        /\ \A n \in Nodes : Reached(n) =>
              /\ Cardinality(EventsOf("create", n)) = 1
              /\ Cardinality(EventsOf("write", n)) = 1
              /\ \A k \in EventsOf("create", n) : log[k].path = PagePath(n)
        /\ DOMAIN fs = { PagePath(n) : n \in { m \in Nodes : Reached(m) } }

C1_Witness ==
    /\ status = "ok"
    /\ \E n \in Nodes : Documentable(n) /\ ~Reached(n)
    /\ \E n \in Nodes \ {Root} : Reached(n) /\ EventsOf("write", n) /= {}

----------------------------------------------------------------------------
(* C2 *)

\* the links a SEE ALSO section is to hold for the children of n
ExpectedChildLinks(n) ==
    LET RECURSIVE over(_)
        over(j) == IF j > Len(cmds) THEN <<>>
                   ELSE IF cmds[j].parent = n /\ Documentable(j)
                        THEN <<[text |-> CommandPath(j),
                                href |-> "/" \o PagePath(j)]>> \o over(j + 1)
                        ELSE over(j + 1)
    IN  over(1)

TopLevelLinks(links) ==
    LET RECURSIVE from(_)
        from(k) == IF k > Len(links) THEN <<>>
                   ELSE IF links[k].level = 1
                        THEN <<[text |-> links[k].text, href |-> links[k].href]>>
                             \o from(k + 1)
                        ELSE from(k + 1)
    IN  from(1)

\* C2: the page of a documentable node with a documentable child has a SEE
\* ALSO section whose child links are the documentable children, one each, in
\* the order of their enumeration, and which names no other child
C2_SeeAlsoListsDocumentableChildren ==
    JustWrote =>
        LET n == LastEvent.node
            page == LastEvent.page
        IN  (Documentable(n) /\ \E c \in ChildrenOf(n) : Documentable(c)) =>
               /\ page.section = "SEE ALSO"
               /\ TopLevelLinks(page.links) = ExpectedChildLinks(n)
               /\ \A c \in ChildrenOf(n) : ~Documentable(c) =>
                     \A k \in DOMAIN page.links :
                         page.links[k].text /= CommandPath(c)

C2_Witness ==
    /\ JustWrote
    /\ Documentable(LastEvent.node)
    /\ \E c \in ChildrenOf(LastEvent.node) : Documentable(c)
    /\ \E c \in ChildrenOf(LastEvent.node) : ~Documentable(c)

----------------------------------------------------------------------------
(* C3 *)

\* C3 as claimed, for the page of a documentable node: it ends in the Example
\* section exactly when the node has no documentable child, and in SEE ALSO
\* otherwise
C3_AsClaimed ==
    (JustWrote /\ Documentable(LastEvent.node)) =>
        (LastEvent.page.section = "Example"
            <=> ~\E c \in ChildrenOf(LastEvent.node) : Documentable(c))

\* C3 amended: a page ends in the Example section exactly when its node has
\* no child at all, and in SEE ALSO otherwise; a node whose children are all
\* non-documentable gets a SEE ALSO section without links
C3_SectionByChildren ==
    JustWrote =>
        /\ LastEvent.page.section \in {"Example", "SEE ALSO"}
        /\ LastEvent.page.section = "Example" <=> ChildrenOf(LastEvent.node) = {}
        /\ (ChildrenOf(LastEvent.node) /= {}
              /\ \A c \in ChildrenOf(LastEvent.node) : ~Documentable(c))
            => LastEvent.page.links = <<>>

C3_Witness ==
    /\ JustWrote
    /\ LastEvent.node /= Root
    /\ ChildrenOf(LastEvent.node) /= {}
    /\ \A c \in ChildrenOf(LastEvent.node) : ~Documentable(c)
    /\ LastEvent.page.section = "SEE ALSO"

----------------------------------------------------------------------------
(* C4 *)

\* C4: after a successful run every link of every page written names a node
\* whose page file was created in the run at the path the link points to, and
\* every page but the root's is linked from the page written for its parent
C4_LinksMatchFiles ==
    status = "ok" =>
        /\ \A k \in Events("write") : \A b \in DOMAIN log[k].page.links :
              \E j \in Events("create") :
                  /\ "/" \o log[j].path = log[k].page.links[b].href
                  /\ CommandPath(log[j].node) = log[k].page.links[b].text
                  /\ log[j].path = "docs/formats/" \o baseName(log[j].node) \o ".md"
        /\ \A k \in Events("write") : log[k].node /= Root =>
              \E j \in EventsOf("write", cmds[log[k].node].parent) :
                  \E b \in DOMAIN log[j].page.links :
                      /\ log[j].page.links[b].href = "/" \o log[k].path
                      /\ log[j].page.links[b].text = CommandPath(log[k].node)

C4_Witness ==
    /\ status = "ok"
    /\ \E k \in Events("write") :
          /\ \E b \in DOMAIN log[k].page.links : log[k].page.links[b].level = 2
          /\ \E c \in ChildrenOf(log[k].node) : ~Documentable(c)

----------------------------------------------------------------------------
(* C5 *)

\* C5: once a node has failed, no step creates or writes a file or a
\* directory, none moves on to another child or calls generate again (a step
\* only returns from a frame or ends the process), and the run never ends
\* with exit status 0
C5_AbortsOnFirstError ==
    [][failure /= NoFailure =>
          /\ fs' = fs /\ log' = log /\ dirs' = dirs
          /\ failure' = failure
          /\ status' /= "ok"
          /\ \/ status' = "failed" /\ stack' = stack
             \/ status' = status /\ Len(stack) > 0
                  /\ stack' = SubSeq(stack, 1, Len(stack) - 1)]_vars

C5_Witness ==
    /\ status = "failed"
    /\ failure.kind \in {"factory", "print", "create", "writeEmpty", "writeTo"}
    /\ failure.node /= Root
    /\ cmds[failure.node].parent /= Root
    /\ Events("write") /= {}
    /\ \E n \in Nodes : Reached(n) /\ cmds[n].parent = Root
                        /\ EventsOf("create", n) = {} /\ EventsOf("createfail", n) = {}

----------------------------------------------------------------------------
(* C6 *)

----------------------------------------------------------------------------
(* C7 *)

\* the hyphenated path with its one leading "terraform-docs-" removed
StripLeadingPrefix(h) ==
    IF Len(h) >= Len("terraform-docs-")
       /\ SubSeq(h, 1, Len("terraform-docs-")) = "terraform-docs-"
    THEN SubSeq(h, Len("terraform-docs-") + 1, Len(h))
    ELSE h

\* C7: the base name generate derives for a node is its path with every space
\* turned into a hyphen and only the leading "terraform-docs-" removed
C7_AsClaimed ==
    (stack /= <<>> /\ Top.cmd /= Root) =>
        Top.basename = StripLeadingPrefix(Replace(CommandPath(Top.cmd), " ", "-"))

----------------------------------------------------------------------------
(* C8 *)

\* the content of a file apart from the generation-date lines
WithoutDate(chunks) ==
    [k \in DOMAIN chunks |-> [chunks[k] EXCEPT !.date = ""]]

\* C8: a second successful run over the files of the first leaves the same
\* files with the same contents apart from the date lines
C8_Idempotent ==
    (run = 2 /\ status = "ok") =>
        /\ DOMAIN fs = DOMAIN snapshot
        /\ \A p \in DOMAIN fs : WithoutDate(fs[p]) = WithoutDate(snapshot[p])

C8_Witness ==
    /\ run = 2 /\ status = "ok"
    /\ Cardinality(DOMAIN fs) >= 3
    /\ \E p \in DOMAIN fs : fs[p] /= snapshot[p]

----------------------------------------------------------------------------
(* C9 *)

\* C9: files are created in depth-first post-order of the reached nodes, each
\* file is written right after it was created and before the next is created,
\* and a successful run ends with the write of the root guide page
C9_PostOrder ==
    (status /= "running") =>
        /\ IsPrefix(NodesOf("create"), PostOrder(Root))
        /\ IsPrefix(NodesOf("write"), NodesOf("create"))
        /\ Len(NodesOf("create")) <= Len(NodesOf("write")) + 1
        /\ \A k \in Events("write") : k > 1 /\ log[k - 1].op = "create"
                                      /\ log[k - 1].node = log[k].node
        /\ status = "ok" =>
              /\ NodesOf("write") = PostOrder(Root)
              /\ LastEvent.op = "write" /\ LastEvent.node = Root
              /\ LastEvent.path = "docs/FORMATS_GUIDE.md"

C9_Witness ==
    /\ status = "ok"
    /\ Len(log) = 8
    /\ \E n \in Nodes : cmds[n].parent \notin {0, Root} /\ Reached(n)
    /\ Cardinality({ n \in ChildrenOf(Root) : Reached(n) }) = 2

----------------------------------------------------------------------------
(* C10 *)

RenderingFailed == status = "failed" /\ failure.kind \in {"factory", "print"}

\* the page of the last write to a path
LastWritten(p) ==
    LET k == CHOOSE k \in Events("write") :
                 log[k].path = p /\ \A j \in Events("write") : log[j].path = p => j <= k
    IN  log[k].page

\* C10 as claimed: after a run aborted by a rendering error at node n every
\* file written before still holds its complete page, the file of n is empty
\* and no file holds a partial page
C10_AsClaimed ==
    RenderingFailed =>
        /\ \A k \in Events("write") :
              /\ Len(fs[log[k].path]) = 1
              /\ ~fs[log[k].path][1].partial
        /\ fs[PagePath(failure.node)] = <<>>
        /\ \A p \in DOMAIN fs : \A c \in DOMAIN fs[p] : ~fs[p][c].partial

\* C10 amended: after a run aborted by a rendering error at node n the file
\* of n is empty, also when a page had been written to the same path earlier
\* (nodes whose derived names coincide); every other file written before
\* holds, whole, the last page written to it; no file holds a partial page
C10_StateAfterRenderError ==
    RenderingFailed =>
        /\ \A k \in Events("write") :
              log[k].path /= PagePath(failure.node) =>
                  fs[log[k].path] = <<LastWritten(log[k].path)>>
        /\ fs[PagePath(failure.node)] = <<>>
        /\ LastEvent = [op |-> "create", node |-> failure.node,
                        path |-> PagePath(failure.node)]
        /\ \A p \in DOMAIN fs : \A c \in DOMAIN fs[p] : ~fs[p][c].partial

C10_Witness ==
    /\ RenderingFailed
    /\ \E k \in Events("write") : log[k].path = PagePath(failure.node)
    /\ \E k \in Events("write") : log[k].path /= PagePath(failure.node)

====
